---- MODULE Spec2Model ----
(***************************************************************************)
(* Account registry and key custody of ape-starknet                        *)
(* (src/ape_starknet/accounts/__init__.py).                                *)
(*                                                                         *)
(* The registry (StarknetAccountContracts) keeps two maps by alias: the    *)
(* ephemeral accounts and the cache of key-file accounts.  The data        *)
(* folder holds one JSON key file per persisted alias.  A key-file         *)
(* account owns a locked flag and a cached decrypted key.                  *)
(*                                                                         *)
(* Strings that the code inspects by substring (network names) are         *)
(* sequences of characters.  Python's None is the empty sequence and a     *)
(* present optional value x is <<x>>.  Python dicts are functions whose    *)
(* domain is the set of keys.                                              *)
(***************************************************************************)
EXTENDS Integers, Sequences, FiniteSets, TLC

\* ------------------------------------------------------------------ bounds
\* Longest deployment ledger add_deployment is allowed to build.
MaxDeployments == 1

\* Longest ledger in the specification of the deployment ledger.
MaxLedger == 2

\* Most transfers sent in the specification of the token manager.
MaxTransfers == 1

\* ------------------------------------------------------------- input sets
Aliases == {"alice"}

\* Private keys (300 needs two bytes).
Keys == {1, 300}

\* Passphrases a caller or the prompt can supply.
Passphrases == {"pw1", "pw2"}

Addresses == {"0xA", "0xB"}

local == <<"l", "o", "c", "a", "l">>

mainnet == <<"m", "a", "i", "n", "n", "e", "t">>

testnet == <<"t", "e", "s", "t", "n", "e", "t">>

NetworkNames == {local, testnet}

\* A network whose name merely contains a token, and two custom networks
\* one of whose names is a substring of the other.
testnet2 == <<"t", "e", "s", "t", "n", "e", "t", "2">>

dev == <<"d", "e", "v">>

dev2 == <<"d", "e", "v", "2">>

LedgerNetworkNames == {testnet, testnet2, dev, dev2}

LedgerKeys == {1}

LOCAL_NETWORK_NAME == local

\* ---------------------------------------------------------------- helpers
None == <<>>

Some(x) == <<x>>

\* click.Abort raised by a prompt (interrupt or end of input).
Abort == "<Abort>"

EmptyDict == [k \in {} |-> k]

\* {**a, **b}: the keys of b win.
Merge(a, b) ==
    [k \in (DOMAIN a) \cup (DOMAIN b) |-> IF k \in DOMAIN b THEN b[k] ELSE a[k]]

\* Python `sub in s` on strings.
Contains(s, sub) ==
    \E i \in 0..(Len(s) - Len(sub)) : SubSeq(s, i + 1, i + Len(sub)) = sub

\* [d for d in ds if d.network_name not in name]
RECURSIVE NotIn(_, _)
NotIn(ds, name) ==
    IF ds = <<>> THEN <<>>
    ELSE IF ~Contains(name, Head(ds).network_name)
         THEN <<Head(ds)>> \o NotIn(Tail(ds), name)
         ELSE NotIn(Tail(ds), name)

\* HexBytes(int): the big-endian bytes of a non-negative integer.
RECURSIVE HexBytes(_)
HexBytes(n) ==
    IF n < 256 THEN <<n>> ELSE Append(HexBytes(n \div 256), n % 256)

\* int(bytes.hex(), 16)
RECURSIVE IntFromHex(_)
IntFromHex(b) ==
    IF b = <<>> THEN 0
    ELSE IntFromHex(SubSeq(b, 1, Len(b) - 1)) * 256 + b[Len(b)]

\* text_if_str(to_bytes, passphrase): the UTF-8 bytes of the passphrase.
PassphraseBytes(p) == <<"utf8", p>>

\* KeyPair.from_private_key(k).public_key
StarkPublicKey(k) == <<"stark", k>>

\* eth_keyfile.create_keyfile_json: the key bytes sealed under the password,
\* and the "address" the scheme derives from the key.  The random "id" and
\* the constant "version" of the key file play no part and are left out.
create_keyfile_json(key_bytes, password) ==
    [address |-> <<"eth", key_bytes>>,
     crypto |-> [sealed |-> key_bytes, mac |-> password]]

\* eth_keyfile.decode_keyfile_json: the MAC check fails on another password.
decode_keyfile_json(key_file_dict, password) ==
    IF key_file_dict.crypto.mac = password
    THEN [result |-> "ok", bytes |-> key_file_dict.crypto.sealed]
    ELSE [result |-> "ValueError", bytes |-> <<>>]

_clean_network_name(network) ==
    IF Contains(network, local) THEN local
    ELSE IF Contains(network, mainnet) THEN mainnet
    ELSE IF Contains(network, testnet) THEN testnet
    ELSE network

\* ------------------------------------------------------------------ state
VARIABLES
    ephemeral_accounts,   \* alias -> account data dict (memory only)
    cached_accounts,      \* alias -> key-file account object
    key_files,            \* alias -> content of <data_folder>/<alias>.json
    network,              \* provider.network.name
    last,                 \* what the latest call was given and what it did
    local_balance_cache,  \* TokenManager.local_balance_cache: address -> int
    balances,             \* network -> token -> address -> balance on chain
    transfers             \* number of transfers sent so far

vars == <<ephemeral_accounts, cached_accounts, key_files, network, last,
          local_balance_cache, balances, transfers>>

\* The state of the token manager and of the token contracts.
token_vars == <<local_balance_cache, balances, transfers>>

\* A new StarknetKeyfileAccount object.
StarknetKeyfileAccount == [locked |-> TRUE, cached_key |-> None]

\* StarknetAccountContracts.aliases
aliases == (DOMAIN ephemeral_accounts) \cup (DOMAIN key_files)

Put(f, k, v) == [x \in (DOMAIN f) \cup {k} |-> IF x = k THEN v ELSE f[x]]

Remove(f, k) == [x \in (DOMAIN f) \ {k} |-> f[x]]

\* ------------------------------------------- StarknetKeyfileAccount methods
\* Each method is a function of the object (self), its path (the alias), the
\* data folder (fs) and the inputs; it returns the object and the data folder
\* after the call and the outcome of the call.

get_account_data(path, fs) ==
    IF path \in DOMAIN fs THEN fs[path] ELSE EmptyDict

__decrypt_key_file(path, fs, passphrase) ==
    IF path \notin DOMAIN fs
    THEN [result |-> "FileNotFoundError", bytes |-> <<>>]
    ELSE LET key_file_dict ==
                 [k \in ((DOMAIN fs[path]) \ {"public_key"}) \cup {"address"} |->
                     IF k = "address" THEN fs[path]["public_key"] ELSE fs[path][k]]
         IN  decode_keyfile_json(key_file_dict, PassphraseBytes(passphrase))

\* _get_key caching the key only on a confirmation, whatever was supplied.
_get_key_confirm_only(self, path, fs, passphrase, answer, confirm) ==
    IF self.cached_key # None /\ ~self.locked
    THEN [self |-> self, result |-> "ok", value |-> self.cached_key,
          prompts |-> {}, decrypted |-> FALSE]
    ELSE
      LET self1 == [self EXCEPT !.cached_key = None]
          asked == IF passphrase = None THEN {"unlock"} ELSE {}
      IN  IF passphrase = None /\ answer = Abort
          THEN [self |-> self1, result |-> "Abort", value |-> None,
                prompts |-> asked, decrypted |-> FALSE]
          ELSE
            LET passphrase1 == IF passphrase = None THEN Some(answer) ELSE passphrase
                dec == __decrypt_key_file(path, fs, passphrase1[1])
            IN  IF dec.result # "ok"
                THEN [self |-> self1, result |-> dec.result, value |-> None,
                      prompts |-> asked, decrypted |-> TRUE]
                ELSE
                  LET key == IntFromHex(dec.bytes)
                      ask_confirm == self1.locked /\ passphrase1 = None
                      unlock == self1.locked /\ confirm
                  IN  [self |-> IF unlock
                                THEN [locked |-> FALSE, cached_key |-> Some(key)]
                                ELSE self1,
                       result |-> "ok", value |-> Some(key),
                       prompts |-> asked \cup (IF ask_confirm THEN {"confirm"} ELSE {}),
                       decrypted |-> TRUE]

\* _get_key without the reset of a key cached in a locked account.
_get_key_keeps_stale_key(self, path, fs, passphrase, answer, confirm) ==
    IF self.cached_key # None /\ ~self.locked
    THEN [self |-> self, result |-> "ok", value |-> self.cached_key,
          prompts |-> {}, decrypted |-> FALSE]
    ELSE
      LET self1 == self
          asked == IF passphrase = None THEN {"unlock"} ELSE {}
      IN  IF passphrase = None /\ answer = Abort
          THEN [self |-> self1, result |-> "Abort", value |-> None,
                prompts |-> asked, decrypted |-> FALSE]
          ELSE
            LET passphrase1 == IF passphrase = None THEN Some(answer) ELSE passphrase
                dec == __decrypt_key_file(path, fs, passphrase1[1])
            IN  IF dec.result # "ok"
                THEN [self |-> self1, result |-> dec.result, value |-> None,
                      prompts |-> asked, decrypted |-> TRUE]
                ELSE
                  LET key == IntFromHex(dec.bytes)
                      ask_confirm == self1.locked /\ passphrase1 = None
                      unlock == self1.locked /\ (passphrase1 # None \/ confirm)
                  IN  [self |-> IF unlock
                                THEN [locked |-> FALSE, cached_key |-> Some(key)]
                                ELSE self1,
                       result |-> "ok", value |-> Some(key),
                       prompts |-> asked \cup (IF ask_confirm THEN {"confirm"} ELSE {}),
                       decrypted |-> TRUE]

\* _get_key that decrypts with a supplied passphrase also when unlocked.
_get_key_checks_passphrase(self, path, fs, passphrase, answer, confirm) ==
    IF self.cached_key # None /\ ~self.locked /\ passphrase = None
    THEN [self |-> self, result |-> "ok", value |-> self.cached_key,
          prompts |-> {}, decrypted |-> FALSE]
    ELSE
      LET self1 == [self EXCEPT !.cached_key = None]
          asked == IF passphrase = None THEN {"unlock"} ELSE {}
      IN  IF passphrase = None /\ answer = Abort
          THEN [self |-> self1, result |-> "Abort", value |-> None,
                prompts |-> asked, decrypted |-> FALSE]
          ELSE
            LET passphrase1 == IF passphrase = None THEN Some(answer) ELSE passphrase
                dec == __decrypt_key_file(path, fs, passphrase1[1])
            IN  IF dec.result # "ok"
                THEN [self |-> self1, result |-> dec.result, value |-> None,
                      prompts |-> asked, decrypted |-> TRUE]
                ELSE
                  LET key == IntFromHex(dec.bytes)
                      ask_confirm == self1.locked /\ passphrase1 = None
                      unlock == self1.locked /\ (passphrase1 # None \/ confirm)
                  IN  [self |-> IF unlock
                                THEN [locked |-> FALSE, cached_key |-> Some(key)]
                                ELSE self1,
                       result |-> "ok", value |-> Some(key),
                       prompts |-> asked \cup (IF ask_confirm THEN {"confirm"} ELSE {}),
                       decrypted |-> TRUE]

_get_key(self, path, fs, passphrase, answer, confirm) ==
    IF self.cached_key # None /\ ~self.locked
    THEN [self |-> self, result |-> "ok", value |-> self.cached_key,
          prompts |-> {}, decrypted |-> FALSE]
    ELSE
      LET self1 == [self EXCEPT !.cached_key = None]
          asked == IF passphrase = None THEN {"unlock"} ELSE {}
      IN  IF passphrase = None /\ answer = Abort
          THEN [self |-> self1, result |-> "Abort", value |-> None,
                prompts |-> asked, decrypted |-> FALSE]
          ELSE
            LET passphrase1 == IF passphrase = None THEN Some(answer) ELSE passphrase
                dec == __decrypt_key_file(path, fs, passphrase1[1])
            IN  IF dec.result # "ok"
                THEN [self |-> self1, result |-> dec.result, value |-> None,
                      prompts |-> asked, decrypted |-> TRUE]
                ELSE
                  LET key == IntFromHex(dec.bytes)
                      ask_confirm == self1.locked /\ passphrase1 = None
                      unlock == self1.locked /\ (passphrase1 # None \/ confirm)
                  IN  [self |-> IF unlock
                                THEN [locked |-> FALSE, cached_key |-> Some(key)]
                                ELSE self1,
                       result |-> "ok", value |-> Some(key),
                       prompts |-> asked \cup (IF ask_confirm THEN {"confirm"} ELSE {}),
                       decrypted |-> TRUE]

\* A method that calls another hands the callee's outcome to the rest of its
\* body (the operator named Then), so that the callee is evaluated once.

__encrypt_key_file(self, path, fs, passphrase, private_key) ==
    LET Then(got) ==
            IF got.result # "ok"
            THEN [self |-> got.self, result |-> got.result, data |-> EmptyDict,
                  decrypted |-> got.decrypted]
            ELSE [self |-> got.self, result |-> "ok",
                  data |-> create_keyfile_json(HexBytes(got.value[1]),
                                               PassphraseBytes(passphrase)),
                  decrypted |-> got.decrypted]
    IN  IF private_key = None
        THEN Then(_get_key(self, path, fs, Some(passphrase), Abort, FALSE))
        ELSE Then([self |-> self, result |-> "ok", value |-> private_key,
                   prompts |-> {}, decrypted |-> FALSE])

\* The members of account_data in the order json.dumps writes them.
Members == <<"crypto", "public_key", "deployments">>

\* Path.write_text: open(path, "w") empties the file, then the text is
\* written into it.  written is the number of members that reached the file:
\* all of them unless the writing is cut short.
write_text(fs, path, data, written) ==
    Put(fs, path,
        [k \in (DOMAIN data) \cap {Members[i] : i \in 1..written} |-> data[k]])

write(self, path, fs, passphrase, private_key, kwargs, answer) ==
    LET asked == IF passphrase = None THEN {"new"} ELSE {}
        Then(enc) ==
            IF enc.result # "ok"
            THEN [self |-> enc.self, fs |-> fs, result |-> enc.result,
                  prompts |-> asked, decrypted |-> enc.decrypted]
            ELSE
              LET key_file_data ==
                      [k \in ((DOMAIN enc.data) \ {"address"}) \cup {"public_key"} |->
                          IF k = "public_key" THEN enc.data["address"]
                          ELSE enc.data[k]]
                  account_data ==
                      Merge(Merge(key_file_data, get_account_data(path, fs)), kwargs)
              IN  [self |-> enc.self,
                   fs |-> write_text(fs, path, account_data, Len(Members)),
                   result |-> "ok", prompts |-> asked, decrypted |-> enc.decrypted]
    IN  IF passphrase = None /\ answer = Abort
        THEN [self |-> self, fs |-> fs, result |-> "Abort", prompts |-> asked,
              decrypted |-> FALSE]
        ELSE Then(__encrypt_key_file(self, path, fs,
                                     IF passphrase = None THEN answer
                                     ELSE passphrase[1],
                                     private_key))

\* BaseStarknetAccount.deployments: KeyError when the data has no such key.
deployments(path, fs) ==
    LET data == get_account_data(path, fs)
    IN  IF "deployments" \in DOMAIN data
        THEN [result |-> "ok", list |-> data["deployments"]]
        ELSE [result |-> "KeyError", list |-> <<>>]

\* network.ecosystem.decode_address: the checksummed form of an address.
decode_address(address) == <<"checksum", address>>

\* ecosystem.encode_address: the int of an address given as int or str.
encode_address(address) ==
    IF address[1] = "checksum" THEN address[2] ELSE address

\* BaseStarknetAccount.contract_address on the account data and the name of
\* the provider's network.
RECURSIVE FirstOn(_, _)
FirstOn(ds, name) ==
    IF ds = <<>> THEN [result |-> "AccountsError", value |-> None]
    ELSE IF Head(ds).network_name = name
         THEN [result |-> "ok",
               value |-> Some(decode_address(Head(ds).contract_address))]
         ELSE FirstOn(Tail(ds), name)

BaseStarknetAccount_contract_address(data, network_name) ==
    IF "deployments" \notin DOMAIN data
    THEN [result |-> "KeyError", value |-> None]
    ELSE FirstOn(data["deployments"], network_name)

\* BaseStarknetAccount.address on the account data.
BaseStarknetAccount_address(data) ==
    IF "public_key" \notin DOMAIN data
    THEN [result |-> "KeyError", value |-> None]
    ELSE [result |-> "ok", value |-> Some(decode_address(data["public_key"]))]

\* delete that does not ask the passphrase to decrypt the key file.
delete_unproven(self, path, fs, network_name, answer) ==
    LET Fail(result, decrypted) ==
            [self |-> self, fs |-> fs, result |-> result,
             prompts |-> {"delete"}, decrypted |-> decrypted]
        Then(w) ==
            [self |-> w.self, fs |-> w.fs, result |-> w.result,
             prompts |-> {"delete"} \cup w.prompts, decrypted |-> TRUE]
        Rest(dec, deps) ==
            IF deps.result # "ok" THEN Fail(deps.result, TRUE)
            ELSE IF NotIn(deps.list, network_name) = <<>>
            THEN [self |-> self, fs |-> Remove(fs, path), result |-> "ok",
                  prompts |-> {"delete"}, decrypted |-> TRUE]
            ELSE Then(write(self, path, fs, Some(answer), None,
                            [deployments |-> NotIn(deps.list, network_name)],
                            Abort))
    IN  IF answer = Abort
        THEN Fail("Abort", FALSE)
        ELSE Rest(__decrypt_key_file(path, fs, answer), deployments(path, fs))

delete(self, path, fs, network_name, answer) ==
    LET Fail(result, decrypted) ==
            [self |-> self, fs |-> fs, result |-> result,
             prompts |-> {"delete"}, decrypted |-> decrypted]
        Then(w) ==
            [self |-> w.self, fs |-> w.fs, result |-> w.result,
             prompts |-> {"delete"} \cup w.prompts, decrypted |-> TRUE]
        Rest(dec, deps) ==
            IF dec.result # "ok" THEN Fail(dec.result, TRUE)
            ELSE IF deps.result # "ok" THEN Fail(deps.result, TRUE)
            ELSE IF NotIn(deps.list, network_name) = <<>>
            THEN [self |-> self, fs |-> Remove(fs, path), result |-> "ok",
                  prompts |-> {"delete"}, decrypted |-> TRUE]
            ELSE Then(write(self, path, fs, Some(answer), None,
                            [deployments |-> NotIn(deps.list, network_name)],
                            Abort))
    IN  IF answer = Abort
        THEN Fail("Abort", FALSE)
        ELSE Rest(__decrypt_key_file(path, fs, answer), deployments(path, fs))

change_password(self, path, fs, answer, new_answer) ==
    LET self1 == [self EXCEPT !.locked = TRUE]
        Then(got, w) ==
            [self |-> w.self, fs |-> w.fs, result |-> w.result,
             prompts |-> {"unlock"} \cup w.prompts, decrypted |-> got.decrypted]
        Rest(got) ==
            IF got.result # "ok"
            THEN [self |-> got.self, fs |-> fs, result |-> got.result,
                  prompts |-> {"unlock"}, decrypted |-> got.decrypted]
            ELSE Then(got, write(got.self, path, fs, None, got.value, EmptyDict,
                                 new_answer))
    IN  IF answer = Abort
        THEN [self |-> self1, fs |-> fs, result |-> "Abort",
              prompts |-> {"unlock"}, decrypted |-> FALSE]
        ELSE Rest(_get_key(self1, path, fs, Some(answer), Abort, FALSE))

add_deployment_appends(self, path, fs, network_name, contract_address, answer) ==
    LET network_name1 == _clean_network_name(network_name)
        new_deployment == [network_name |-> network_name1,
                           contract_address |-> contract_address]
        Then(got, w) ==
            [self |-> w.self, fs |-> w.fs, result |-> w.result,
             prompts |-> {"unlock"} \cup w.prompts, decrypted |-> got.decrypted]
        Rest(deps, got) ==
            IF deps.result # "ok"
            THEN [self |-> self, fs |-> fs, result |-> deps.result,
                  prompts |-> {"unlock"}, decrypted |-> FALSE]
            ELSE IF got.result # "ok"
            THEN [self |-> got.self, fs |-> fs, result |-> got.result,
                  prompts |-> {"unlock"}, decrypted |-> got.decrypted]
            ELSE Then(got,
                      write(got.self, path, fs, Some(answer), got.value,
                            [deployments |->
                                Append(deps.list,
                                       new_deployment)],
                            Abort))
    IN  IF answer = Abort
        THEN [self |-> self, fs |-> fs, result |-> "Abort", prompts |-> {"unlock"},
              decrypted |-> FALSE]
        ELSE Rest(deployments(path, fs),
                  _get_key(self, path, fs, Some(answer), Abort, FALSE))

add_deployment(self, path, fs, network_name, contract_address, answer) ==
    LET network_name1 == _clean_network_name(network_name)
        new_deployment == [network_name |-> network_name1,
                           contract_address |-> contract_address]
        Then(got, w) ==
            [self |-> w.self, fs |-> w.fs, result |-> w.result,
             prompts |-> {"unlock"} \cup w.prompts, decrypted |-> got.decrypted]
        Rest(deps, got) ==
            IF deps.result # "ok"
            THEN [self |-> self, fs |-> fs, result |-> deps.result,
                  prompts |-> {"unlock"}, decrypted |-> FALSE]
            ELSE IF got.result # "ok"
            THEN [self |-> got.self, fs |-> fs, result |-> got.result,
                  prompts |-> {"unlock"}, decrypted |-> got.decrypted]
            ELSE Then(got,
                      write(got.self, path, fs, Some(answer), got.value,
                            [deployments |->
                                Append(NotIn(deps.list, network_name1),
                                       new_deployment)],
                            Abort))
    IN  IF answer = Abort
        THEN [self |-> self, fs |-> fs, result |-> "Abort", prompts |-> {"unlock"},
              decrypted |-> FALSE]
        ELSE Rest(deployments(path, fs),
                  _get_key(self, path, fs, Some(answer), Abort, FALSE))

\* ------------------------------------------------------------- signing
\* The hash of the calldata that sign_calldata signs.
hash_calldata(msg) == <<"hash", msg>>

\* sign_calldata(msg, private_key): the signature of the hash under the key.
sign_calldata(msg, private_key) == <<"sig", private_key, hash_calldata(msg)>>

\* verify_ecdsa_sig(public_key, data, signature): the signature was made over
\* data with the private key of this stark public key.
verify_ecdsa_sig(public_key, data, signature) ==
    /\ public_key = StarkPublicKey(signature[2])
    /\ data = signature[3]

\* StarknetEphemeralAccount.sign_message; a msg that is no list is wrapped.
StarknetEphemeralAccount_sign_message(raw_account_data, msg) ==
    [result |-> "ok",
     value |-> Some(sign_calldata(<<msg>>, raw_account_data["private_key"])),
     prompts |-> {}, decrypted |-> FALSE]

\* StarknetKeyfileAccount.sign_message.
sign_message(self, path, fs, msg, passphrase, answer, confirm) ==
    LET Then(got) ==
            [self |-> got.self, result |-> got.result,
             value |-> IF got.result = "ok"
                       THEN Some(sign_calldata(<<msg>>, got.value[1]))
                       ELSE None,
             prompts |-> got.prompts, decrypted |-> got.decrypted]
    IN  Then(_get_key(self, path, fs, passphrase, answer, confirm))

\* check_signature deriving the public key from the private key, which it
\* gets by decrypting the key file.
check_signature_unlocking(self, account_data, data, signature) ==
    IF "crypto" \notin DOMAIN account_data
    THEN [self |-> self, result |-> "KeyError", value |-> None,
          prompts |-> {}, decrypted |-> FALSE]
    ELSE [self |-> [locked |-> FALSE,
                    cached_key |-> Some(IntFromHex(account_data["crypto"].sealed))],
          result |-> "ok",
          value |-> Some(verify_ecdsa_sig(
                       StarkPublicKey(IntFromHex(account_data["crypto"].sealed)),
                       data, signature)),
          prompts |-> {"unlock"}, decrypted |-> TRUE]

\* BaseStarknetAccount.check_signature on the account object (self) and its
\* account data: the public key is read through address, nothing is asked.
check_signature(self, account_data, data, signature) ==
    LET Then(address) ==
            [self |-> self, result |-> address.result,
             value |-> IF address.result = "ok"
                       THEN Some(verify_ecdsa_sig(encode_address(address.value[1]),
                                                  data, signature))
                       ELSE None,
             prompts |-> {}, decrypted |-> FALSE]
    IN  Then(BaseStarknetAccount_address(account_data))

\* --------------------------------------- StarknetAccountContracts methods
\* The registry state a method works on.
Registry == [ephemeral_accounts |-> ephemeral_accounts,
             cached_accounts |-> cached_accounts,
             key_files |-> key_files]

\* get_account_data() of the account that load returns for the alias.
loaded_account_data(reg, alias) ==
    IF alias \in DOMAIN reg.ephemeral_accounts
    THEN reg.ephemeral_accounts[alias]
    ELSE get_account_data(alias, reg.key_files)

load_key_file_account(reg, alias) ==
    IF alias \in DOMAIN reg.cached_accounts
    THEN [reg |-> reg, result |-> "ok"]
    ELSE IF alias \in DOMAIN reg.key_files
    THEN [reg |-> [reg EXCEPT !.cached_accounts =
                       Put(reg.cached_accounts, alias, StarknetKeyfileAccount)],
          result |-> "ok"]
    ELSE [reg |-> reg, result |-> "AccountsError"]

\* load looking for a key file before the ephemeral accounts.
load_prefers_key_file(reg, alias) ==
    LET Then(account) ==
            [reg |-> account.reg, result |-> account.result, kind |-> "keyfile"]
    IN  IF alias \in DOMAIN reg.key_files \/ alias \notin DOMAIN reg.ephemeral_accounts
        THEN Then(load_key_file_account(reg, alias))
        ELSE [reg |-> reg, result |-> "ok", kind |-> "ephemeral"]

load(reg, alias) ==
    LET Then(account) ==
            [reg |-> account.reg, result |-> account.result, kind |-> "keyfile"]
    IN  IF alias \in DOMAIN reg.ephemeral_accounts
        THEN [reg |-> reg, result |-> "ok", kind |-> "ephemeral"]
        ELSE Then(load_key_file_account(reg, alias))

\* The private key arrives as an integer (a str is parsed to one at
\* lines 112-114).
import_account(reg, alias, network_name, contract_address, private_key, answer) ==
    LET network_name1 == _clean_network_name(network_name)
        deployment_data ==
            [deployments |-> <<[network_name |-> network_name1,
                                contract_address |-> contract_address]>>]
        account_data ==
            Merge([public_key |-> StarkPublicKey(private_key),
                   private_key |-> private_key], deployment_data)
        Then(w) ==
            [reg |-> [reg EXCEPT !.key_files = w.fs],
             result |-> w.result, prompts |-> w.prompts]
    IN  IF network_name1 = LOCAL_NETWORK_NAME
        THEN [reg |-> [reg EXCEPT !.ephemeral_accounts =
                          Put(reg.ephemeral_accounts, alias, account_data)],
              result |-> "ok", prompts |-> {}]
        ELSE Then(write(StarknetKeyfileAccount, alias, reg.key_files, None,
                        Some(private_key), deployment_data, answer))

\* receipt: "rejected" (send_transaction raises), "no_address" or the
\* contract address of the receipt.  random_key is what
\* get_random_private_key() returns.
deploy_account_unchecked(reg, network_name, alias, private_key, random_key, receipt, answer) ==
    LET private_key1 == IF private_key = None \/ private_key = Some(0)
                        THEN random_key ELSE private_key[1]
        Then(imp) ==
            [reg |-> imp.reg, result |-> imp.result,
             prompts |-> imp.prompts, sent |-> TRUE]
    IN  IF receipt = "rejected"
        THEN [reg |-> reg, result |-> "ProviderError", prompts |-> {}, sent |-> TRUE]
        ELSE IF receipt = "no_address"
        THEN [reg |-> reg, result |-> "AccountsError", prompts |-> {}, sent |-> TRUE]
        ELSE Then(import_account(reg, alias, network_name, receipt,
                                 private_key1, answer))

deploy_account(reg, network_name, alias, private_key, random_key, receipt, answer) ==
    LET private_key1 == IF private_key = None \/ private_key = Some(0)
                        THEN random_key ELSE private_key[1]
        Then(imp) ==
            [reg |-> imp.reg, result |-> imp.result,
             prompts |-> imp.prompts, sent |-> TRUE]
    IN  IF alias \in (DOMAIN reg.ephemeral_accounts) \cup (DOMAIN reg.key_files)
        THEN [reg |-> reg, result |-> "AccountsError", prompts |-> {}, sent |-> FALSE]
        ELSE IF receipt = "rejected"
        THEN [reg |-> reg, result |-> "ProviderError", prompts |-> {}, sent |-> TRUE]
        ELSE IF receipt = "no_address"
        THEN [reg |-> reg, result |-> "AccountsError", prompts |-> {}, sent |-> TRUE]
        ELSE Then(import_account(reg, alias, network_name, receipt,
                                 private_key1, answer))

delete_account(reg, current_network, alias, network_name, answer) ==
    LET network1 == IF network_name = None \/ network_name = Some(<<>>)
                    THEN current_network ELSE network_name[1]
        Then(loaded, d) ==
            [reg |-> [loaded.reg EXCEPT
                         !.cached_accounts =
                             Put(loaded.reg.cached_accounts, alias, d.self),
                         !.key_files = d.fs],
             result |-> d.result, prompts |-> d.prompts,
             decrypted |-> d.decrypted]
        Rest(loaded) ==
            IF loaded.result # "ok"
            THEN [reg |-> loaded.reg, result |-> loaded.result, prompts |-> {},
                  decrypted |-> FALSE]
            ELSE Then(loaded,
                      delete(loaded.reg.cached_accounts[alias], alias,
                             loaded.reg.key_files, network1, answer))
    IN  IF alias \in DOMAIN reg.ephemeral_accounts
        THEN [reg |-> [reg EXCEPT !.ephemeral_accounts =
                           Remove(reg.ephemeral_accounts, alias)],
              result |-> "ok", prompts |-> {}, decrypted |-> FALSE]
        ELSE Rest(load_key_file_account(reg, alias))

\* ------------------------------------------------------ TokenManager
Tokens == {"eth", "test_token"}

\* The integer addresses of two deployed accounts.
TokenHolders == {10, 11}

Amounts == {1, 2}

\* An address as an int, as a checksummed str, and an account object with
\* the attributes address and address_int.
AsInt(a) == <<"int", a>>

AsStr(a) == decode_address(AsInt(a))

AsAccount(a) == <<"account", a>>

AddressForms == {AsInt(a) : a \in TokenHolders} \cup {AsStr(a) : a \in TokenHolders}
                    \cup {AsAccount(a) : a \in TokenHolders}

\* What the contracts hold when the session starts.
InitialBalances ==
    [n \in NetworkNames |->
        [t \in Tokens |->
            [a \in TokenHolders |-> IF t = "eth" THEN 3 ELSE 1]]]

TokensInit ==
    /\ local_balance_cache = EmptyDict
    /\ balances = InitialBalances
    /\ transfers = 0

\* self[token].balanceOf(account) on the chain of the current network.
_get_balance(chain, network_name, account, token) ==
    chain[network_name][token][encode_address(account)[2]]

\* get_balance reading the requested token on every network.
get_balance_of_token(cache, chain, network_name, account, token) ==
    LET address == IF account[1] = "account" THEN AsStr(account[2]) ELSE account
    IN  [cache |-> cache,
         value |-> _get_balance(chain, network_name, address, token)]

get_balance(cache, chain, network_name, account, token) ==
    LET address == IF account[1] = "account" THEN AsStr(account[2]) ELSE account
        Cached(cache1) == [cache |-> cache1, value |-> cache1[address]]
    IN  IF network_name # LOCAL_NETWORK_NAME
        THEN [cache |-> cache,
              value |-> _get_balance(chain, network_name, address, token)]
        ELSE IF address \notin DOMAIN cache
        THEN Cached(Put(cache, address,
                        _get_balance(chain, network_name, address, "eth")))
        ELSE Cached(cache)

\* self[token].transfer(receiver_address_int, amount, sender=sender_account).
erc20_transfer(chain, network_name, token, sender, receiver, amount) ==
    IF chain[network_name][token][sender] < amount
    THEN [result |-> "ContractLogicError", chain |-> chain]
    ELSE [result |-> "ok",
          chain |-> [chain EXCEPT
                        ![network_name][token] =
                            [a \in TokenHolders |->
                                @[a] - (IF a = sender THEN amount ELSE 0)
                                     + (IF a = receiver THEN amount ELSE 0)]]]

\* transfer; sender is the int address of an account of the registry.  The
\* account-object branch assigns receiver_address_int only, so that reading
\* receiver_address after the contract call raises UnboundLocalError.
transfer(cache, chain, network_name, sender, receiver, amount, token) ==
    LET receiver_address_int == IF receiver[1] = "int" THEN receiver
                                ELSE IF receiver[1] = "account"
                                THEN AsInt(receiver[2])
                                ELSE encode_address(receiver)
        receiver_address == IF receiver[1] = "account" THEN None
                            ELSE IF receiver[1] = "int"
                            THEN decode_address(receiver)
                            ELSE decode_address(encode_address(receiver))
        Then(sent) ==
            IF sent.result # "ok"
            THEN [result |-> sent.result, cache |-> cache, chain |-> chain,
                  sent |-> FALSE]
            ELSE IF receiver_address = None
            THEN [result |-> "UnboundLocalError", cache |-> cache,
                  chain |-> sent.chain, sent |-> TRUE]
            ELSE [result |-> "ok",
                  cache |-> IF receiver_address \in DOMAIN cache
                            THEN [cache EXCEPT ![receiver_address] = @ + amount]
                            ELSE cache,
                  chain |-> sent.chain, sent |-> TRUE]
    IN  Then(erc20_transfer(chain, network_name, token, sender,
                            receiver_address_int[2], amount))

\* ---------------------------------------------------------------- actions
\* The record of the latest call: its arguments, what the prompt was asked
\* and answered, what the object looked like before, and the outcome.
NoCall ==
    [op |-> "none", alias |-> "", result |-> "", value |-> None,
     passphrase |-> None, answer |-> "", new_answer |-> "", confirm |-> FALSE,
     prompts |-> {}, decrypted |-> FALSE, was_locked |-> FALSE,
     had_key |-> None, existed |-> FALSE, key |-> None,
     network_name |-> <<>>, contract_address |-> "", sent |-> FALSE,
     network_arg |-> <<>>, had_record |-> FALSE,
     msg |-> 0, token |-> "", account |-> None, amount |-> 0, before |-> None,
     sender |-> 0, signature |-> None, valid |-> FALSE]

Call(op, alias, result, fields) ==
    Merge(NoCall, Merge([op |-> op, alias |-> alias, result |-> result], fields))

Commit(reg) ==
    /\ ephemeral_accounts' = reg.ephemeral_accounts
    /\ cached_accounts' = reg.cached_accounts
    /\ key_files' = reg.key_files

Init ==
    /\ ephemeral_accounts = EmptyDict
    /\ cached_accounts = EmptyDict
    /\ key_files = EmptyDict
    /\ network \in NetworkNames
    /\ last = NoCall
    /\ TokensInit

\* The provider connects to another network.
Connect(name) ==
    /\ UNCHANGED token_vars
    /\ name # network
    /\ network' = name
    /\ last' = Call("connect", "", "ok", [network_name |-> name])
    /\ UNCHANGED <<ephemeral_accounts, cached_accounts, key_files>>

Load(alias) ==
    /\ UNCHANGED token_vars
    /\ \E r \in {load(Registry, alias)} :
          /\ Commit(r.reg)
          /\ last' = Call("load", alias, r.result, [existed |-> alias \in aliases])
    /\ UNCHANGED network

ImportAccount(alias, network_name, contract_address, private_key, answer) ==
    /\ UNCHANGED token_vars
    /\ \E r \in {import_account(Registry, alias, network_name, contract_address,
                                private_key, answer)} :
          /\ Commit(r.reg)
          /\ last' = Call("import_account", alias, r.result,
                          [existed |-> alias \in aliases,
                           network_name |-> _clean_network_name(network_name),
                           network_arg |-> network_name,
                           contract_address |-> contract_address,
                           key |-> Some(private_key),
                           prompts |-> r.prompts,
                           new_answer |-> IF "new" \in r.prompts THEN answer ELSE ""])
    /\ UNCHANGED network

DeployAccount(alias, private_key, random_key, receipt, answer) ==
    /\ UNCHANGED token_vars
    /\ \E r \in {deploy_account(Registry, network, alias, private_key, random_key,
                                receipt, answer)} :
          /\ Commit(r.reg)
          /\ last' = Call("deploy_account", alias, r.result,
                          [existed |-> alias \in aliases,
                           network_name |-> network,
                           contract_address |-> IF receipt \in Addresses /\ r.sent
                                                THEN receipt ELSE "",
                           key |-> IF ~r.sent THEN None
                                   ELSE IF private_key = None THEN Some(random_key)
                                   ELSE private_key,
                           prompts |-> r.prompts,
                           sent |-> r.sent,
                           new_answer |-> IF "new" \in r.prompts THEN answer ELSE ""])
    /\ UNCHANGED network

DeleteAccount(alias, network_name, answer) ==
    /\ UNCHANGED token_vars
    /\ \E r \in {delete_account(Registry, network, alias, network_name, answer)} :
          /\ Commit(r.reg)
          /\ last' = Call("delete_account", alias, r.result,
                          [existed |-> alias \in aliases,
                           network_name |-> IF network_name = None THEN network
                                            ELSE network_name[1],
                           was_locked |-> alias \in DOMAIN cached_accounts
                                          /\ cached_accounts[alias].locked,
                           prompts |-> r.prompts,
                           decrypted |-> r.decrypted,
                           answer |-> IF "delete" \in r.prompts THEN answer ELSE ""])
    /\ UNCHANGED network

\* Key access on a key-file account the caller got from the registry
\* (sign_message and send_transaction reach _get_key this way).
GetKey(alias, passphrase, answer, confirm) ==
    /\ UNCHANGED token_vars
    /\ alias \in DOMAIN cached_accounts
    /\ \E r \in {_get_key(cached_accounts[alias], alias, key_files, passphrase,
                          answer, confirm)} :
          /\ cached_accounts' = Put(cached_accounts, alias, r.self)
          /\ last' = Call("get_key", alias, r.result,
                          [value |-> r.value,
                           passphrase |-> passphrase,
                           answer |-> IF "unlock" \in r.prompts THEN answer ELSE "",
                           confirm |-> "unlock" \in r.prompts /\ answer # Abort
                                       /\ confirm,
                           prompts |-> r.prompts,
                           decrypted |-> r.decrypted,
                           was_locked |-> cached_accounts[alias].locked,
                           had_key |-> cached_accounts[alias].cached_key,
                           existed |-> alias \in DOMAIN key_files])
    /\ UNCHANGED <<ephemeral_accounts, key_files, network>>

ChangePassword(alias, answer, new_answer) ==
    /\ UNCHANGED token_vars
    /\ alias \in DOMAIN cached_accounts
    /\ \E r \in {change_password(cached_accounts[alias], alias, key_files, answer,
                                 new_answer)} :
          /\ cached_accounts' = Put(cached_accounts, alias, r.self)
          /\ key_files' = r.fs
          /\ last' = Call("change_password", alias, r.result,
                          [answer |-> answer,
                           new_answer |-> IF "new" \in r.prompts THEN new_answer
                                          ELSE "",
                           prompts |-> r.prompts,
                           decrypted |-> r.decrypted,
                           was_locked |-> cached_accounts[alias].locked,
                           had_key |-> cached_accounts[alias].cached_key,
                           existed |-> alias \in DOMAIN key_files])
    /\ UNCHANGED <<ephemeral_accounts, network>>

\* limit bounds the ledger the call may leave behind.
AddDeployment(alias, network_name, contract_address, answer, limit) ==
    /\ UNCHANGED token_vars
    /\ alias \in DOMAIN cached_accounts
    /\ \E r \in {add_deployment(cached_accounts[alias], alias, key_files,
                                network_name, contract_address, answer)} :
          /\ alias \in DOMAIN r.fs /\ "deployments" \in DOMAIN r.fs[alias]
               => Len(r.fs[alias]["deployments"]) <= limit
          /\ cached_accounts' = Put(cached_accounts, alias, r.self)
          /\ key_files' = r.fs
          /\ last' = Call("add_deployment", alias, r.result,
                          [answer |-> answer,
                           network_name |-> _clean_network_name(network_name),
                           network_arg |-> network_name,
                           contract_address |-> contract_address,
                           had_record |->
                               \E k \in 1..Len(deployments(alias, key_files).list) :
                                   deployments(alias, key_files).list[k].network_name
                                       = _clean_network_name(network_name),
                           prompts |-> r.prompts,
                           decrypted |-> r.decrypted,
                           was_locked |-> cached_accounts[alias].locked,
                           had_key |-> cached_accounts[alias].cached_key,
                           existed |-> alias \in DOMAIN key_files])
    /\ UNCHANGED <<ephemeral_accounts, network>>

\* address of the account object the caller holds for the alias.
Address(alias) ==
    /\ UNCHANGED token_vars
    /\ alias \in (DOMAIN ephemeral_accounts) \cup (DOMAIN cached_accounts)
    /\ \E r \in {BaseStarknetAccount_address(loaded_account_data(Registry, alias))} :
          last' = Call("address", alias, r.result,
                       [value |-> r.value,
                        existed |-> alias \in aliases])
    /\ UNCHANGED <<ephemeral_accounts, cached_accounts, key_files, network>>

GetBalance(account, token) ==
    /\ \E r \in {get_balance(local_balance_cache, balances, network, account,
                             token)} :
          /\ local_balance_cache' = r.cache
          /\ last' = Call("get_balance", "", "ok",
                          [value |-> Some(r.value), token |-> token,
                           account |-> account, network_name |-> network])
    /\ UNCHANGED <<ephemeral_accounts, cached_accounts, key_files, network,
                   balances, transfers>>

\* provider.send_transaction, which keeps the sender's entry of the cache
\* (NOTE at line 266), is not part of this package: the entry is either
\* left alone or lowered by the amount.
Transfer(sender, receiver, amount, token, sender_entry_lowered) ==
    /\ transfers < MaxTransfers
    /\ \E r \in {transfer(local_balance_cache, balances, network, sender,
                          receiver, amount, token)} :
          /\ local_balance_cache' =
                 IF r.sent /\ sender_entry_lowered
                        /\ AsStr(sender) \in DOMAIN r.cache
                 THEN [r.cache EXCEPT ![AsStr(sender)] = @ - amount]
                 ELSE r.cache
          /\ balances' = r.chain
          /\ transfers' = IF r.sent THEN transfers + 1 ELSE transfers
          /\ last' = Call("transfer", "", r.result,
                          [token |-> token, account |-> receiver,
                           sender |-> sender,
                           amount |-> amount, sent |-> r.sent,
                           network_name |-> network,
                           before |-> Some(get_balance(local_balance_cache,
                                                       balances, network,
                                                       receiver, token).value)])
    /\ UNCHANGED <<ephemeral_accounts, cached_accounts, key_files, network>>

\* sign_message on the account object the caller holds for the alias.
SignMessage(alias, msg, passphrase, answer, confirm) ==
    /\ alias \in (DOMAIN ephemeral_accounts) \cup (DOMAIN cached_accounts)
    /\ \E r \in {IF load(Registry, alias).kind = "ephemeral"
                 THEN StarknetEphemeralAccount_sign_message(
                          ephemeral_accounts[alias], msg)
                 ELSE sign_message(cached_accounts[alias], alias, key_files, msg,
                                   passphrase, answer, confirm)} :
          /\ cached_accounts' = IF "self" \in DOMAIN r
                                THEN Put(cached_accounts, alias, r.self)
                                ELSE cached_accounts
          /\ last' = Call("sign_message", alias, r.result,
                          [signature |-> r.value, msg |-> msg,
                           passphrase |-> passphrase,
                           answer |-> IF "unlock" \in r.prompts THEN answer ELSE "",
                           confirm |-> "unlock" \in r.prompts /\ answer # Abort
                                       /\ confirm,
                           prompts |-> r.prompts,
                           decrypted |-> r.decrypted,
                           was_locked |-> alias \in DOMAIN cached_accounts
                                          /\ cached_accounts[alias].locked,
                           had_key |-> IF alias \in DOMAIN cached_accounts
                                       THEN cached_accounts[alias].cached_key
                                       ELSE None,
                           existed |-> alias \in DOMAIN key_files])
    /\ UNCHANGED <<ephemeral_accounts, key_files, network>>
    /\ UNCHANGED token_vars

\* check_signature on the account object the caller holds for the alias.
CheckSignature(alias, data, signature) ==
    /\ alias \in (DOMAIN ephemeral_accounts) \cup (DOMAIN cached_accounts)
    /\ \E r \in {check_signature(IF alias \in DOMAIN cached_accounts
                                  THEN cached_accounts[alias] ELSE None,
                                  loaded_account_data(Registry, alias),
                                  data, signature)} :
          /\ cached_accounts' =
                 IF load(Registry, alias).kind = "keyfile"
                 THEN Put(cached_accounts, alias, r.self)
                 ELSE cached_accounts
          /\ last' = Call("check_signature", alias, r.result,
                          [valid |-> r.value = Some(TRUE),
                           prompts |-> r.prompts,
                           decrypted |-> r.decrypted,
                           was_locked |-> alias \in DOMAIN cached_accounts
                                          /\ cached_accounts[alias].locked,
                           existed |-> alias \in DOMAIN key_files])
    /\ UNCHANGED <<ephemeral_accounts, key_files, network>>
    /\ UNCHANGED token_vars

\* The process ends and a new one builds the registry again: the class
\* attributes start empty, the key files stay.
Restart ==
    /\ local_balance_cache' = EmptyDict
    /\ UNCHANGED <<balances, transfers>>
    /\ ephemeral_accounts' = EmptyDict
    /\ cached_accounts' = EmptyDict
    /\ last' = Call("restart", "", "ok", [existed |-> FALSE])
    /\ UNCHANGED <<key_files, network>>

\* contract_address of the account object the caller holds for the alias:
\* the ephemeral account if there is one, else the cached key-file account.
ContractAddress(alias) ==
    /\ UNCHANGED token_vars
    /\ alias \in (DOMAIN ephemeral_accounts) \cup (DOMAIN cached_accounts)
    /\ \E r \in {BaseStarknetAccount_contract_address(loaded_account_data(Registry, alias),
                                                     network)} :
          last' = Call("contract_address", alias, r.result,
                       [value |-> r.value, network_name |-> network])
    /\ UNCHANGED <<ephemeral_accounts, cached_accounts, key_files, network>>

Answers == Passphrases \cup {Abort}

Receipts == Addresses \cup {"rejected", "no_address"}

OptionalKeys == {None} \cup {Some(k) : k \in Keys}

OptionalNames == {None} \cup {Some(n) : n \in NetworkNames}

OptionalPassphrases == {None} \cup {Some(p) : p \in Passphrases}

\* Inputs that a call never looks at are fixed, so that one call is one step.
Next ==
    \/ \E name \in NetworkNames : Connect(name)
    \/ \E alias \in Aliases : Load(alias)
    \/ \E alias \in Aliases, name \in NetworkNames, address \in Addresses,
          key \in Keys :
          \E answer \in IF _clean_network_name(name) = LOCAL_NETWORK_NAME
                        THEN {Abort} ELSE Answers :
              ImportAccount(alias, name, address, key, answer)
    \/ \E alias \in Aliases, key \in OptionalKeys, receipt \in Receipts :
          \E random_key \in IF key = None THEN Keys ELSE {key[1]},
             answer \in IF receipt \in Addresses
                           /\ _clean_network_name(network) # LOCAL_NETWORK_NAME
                        THEN Answers ELSE {Abort} :
              DeployAccount(alias, key, random_key, receipt, answer)
    \/ \E alias \in Aliases, name \in OptionalNames, answer \in Answers :
          DeleteAccount(alias, name, answer)
    \/ \E alias \in Aliases, passphrase \in OptionalPassphrases :
          \E answer \in IF passphrase = None THEN Answers ELSE {Abort},
             confirm \in IF passphrase = None THEN BOOLEAN ELSE {FALSE} :
              GetKey(alias, passphrase, answer, confirm)
    \/ \E alias \in Aliases, answer \in Answers :
          \E new_answer \in IF answer = Abort THEN {Abort} ELSE Answers :
              ChangePassword(alias, answer, new_answer)
    \/ \E alias \in Aliases, name \in NetworkNames, address \in Addresses,
          answer \in Answers :
          AddDeployment(alias, name, address, answer, MaxDeployments)

Spec == Init /\ [][Next]_vars

\* The deployment ledger: one key, more network names, longer ledgers.
InitLedger ==
    /\ ephemeral_accounts = EmptyDict
    /\ cached_accounts = EmptyDict
    /\ key_files = EmptyDict
    /\ network \in LedgerNetworkNames
    /\ last = NoCall
    /\ TokensInit

OptionalLedgerNames == {None} \cup {Some(n) : n \in LedgerNetworkNames}

NextLedger ==
    \/ \E name \in LedgerNetworkNames : Connect(name)
    \/ \E alias \in Aliases : Load(alias)
    \/ \E alias \in Aliases, name \in LedgerNetworkNames, address \in Addresses,
          key \in LedgerKeys, answer \in Answers :
          ImportAccount(alias, name, address, key, answer)
    \/ \E alias \in Aliases, key \in LedgerKeys, receipt \in Receipts :
          \E answer \in IF receipt \in Addresses THEN Answers ELSE {Abort} :
              DeployAccount(alias, Some(key), key, receipt, answer)
    \/ \E alias \in Aliases, name \in OptionalLedgerNames, answer \in Answers :
          DeleteAccount(alias, name, answer)
    \/ \E alias \in Aliases, name \in LedgerNetworkNames, address \in Addresses,
          answer \in Answers :
          AddDeployment(alias, name, address, answer, MaxLedger)
    \/ \E alias \in Aliases : ContractAddress(alias)

SpecLedger == InitLedger /\ [][NextLedger]_vars

\* ----------------------------------------------------------------- claims
Locked == [locked |-> TRUE, cached_key |-> None]

Unlocked(key) == [locked |-> FALSE, cached_key |-> key]

\* C1: import_account fails whenever the alias is already present in the
\* ephemeral map or has a key file, and the failure changes neither the
\* ephemeral map, nor any key file, nor the cache of key-file accounts.
C1_ImportExistingAliasFails ==
    [][(last'.op = "import_account" /\ last'.alias \in aliases)
         => /\ last'.result # "ok"
            /\ UNCHANGED <<ephemeral_accounts, key_files, cached_accounts>>]_vars

\* C2: once delete has removed the last deployment, the key file is gone and
\* every load of the alias fails with the not-found error until the alias is
\* created again, also when the account had been loaded before.
C2_DeletedAliasIsNotFound ==
    /\ (last.op = "delete_account" /\ last.result = "ok"
        /\ last.alias \in DOMAIN key_files)
         => /\ deployments(last.alias, key_files).result = "ok"
            /\ deployments(last.alias, key_files).list # <<>>
    /\ (last.op = "load" /\ last.alias \notin aliases)
         => last.result = "AccountsError"

\* C3: after change_password with the correct old passphrase and another new
\* one, the key file decrypts with the new passphrase to the key it held
\* before, no longer decrypts with the old one, and lists the same deployments.
C3_ChangePassphraseReencrypts ==
    [][(/\ last'.op = "change_password"
        /\ last'.result = "ok"
        /\ __decrypt_key_file(last'.alias, key_files, last'.answer).result = "ok"
        /\ last'.new_answer # last'.answer)
         => /\ __decrypt_key_file(last'.alias, key_files', last'.new_answer)
                  = __decrypt_key_file(last'.alias, key_files, last'.answer)
            /\ __decrypt_key_file(last'.alias, key_files', last'.answer).result
                  = "ValueError"
            /\ deployments(last'.alias, key_files')
                  = deployments(last'.alias, key_files)]_vars

\* C4: key access on a locked key-file account with the correct passphrase
\* given as argument returns the key of the key file, leaves the account
\* unlocked with that key cached and prompts for nothing; key access on an
\* unlocked account returns the cached key without prompting or decrypting.
C4_SuppliedPassphraseUnlocks ==
    /\ \A a \in DOMAIN cached_accounts :
          ~cached_accounts[a].locked => cached_accounts[a].cached_key # None
    /\ (/\ last.op = "get_key"
        /\ last.was_locked
        /\ last.passphrase # None
        /\ __decrypt_key_file(last.alias, key_files, last.passphrase[1]).result = "ok")
         => /\ last.result = "ok"
            /\ last.value = Some(IntFromHex(
                                __decrypt_key_file(last.alias, key_files,
                                                   last.passphrase[1]).bytes))
            /\ last.value[1] \in Keys
            /\ cached_accounts[last.alias] = Unlocked(last.value)
            /\ last.prompts = {}
    /\ (last.op = "get_key" /\ ~last.was_locked)
         => /\ last.result = "ok"
            /\ last.value = last.had_key
            /\ last.prompts = {}
            /\ ~last.decrypted
            /\ cached_accounts[last.alias] = Unlocked(last.had_key)

C4_Witness ==
    /\ last.op = "get_key"
    /\ last.was_locked
    /\ last.passphrase # None
    /\ last.result = "ok"
    /\ cached_accounts[last.alias] = Unlocked(last.value)

\* C5: when key access on a locked account gets its passphrase from the
\* prompt, the account becomes unlocked only if the confirmation is answered
\* yes; answered no, the key is returned once and the account stays locked
\* with no cached key.
C5_ConfirmationDecidesUnlock ==
    (/\ last.op = "get_key"
     /\ last.was_locked
     /\ last.passphrase = None
     /\ last.result = "ok")
      => /\ last.value # None
         /\ "confirm" \in last.prompts
         /\ cached_accounts[last.alias] =
                IF last.confirm THEN Unlocked(last.value) ELSE Locked

\* C6: key access on a locked account with a passphrase other than the one
\* its key file was encrypted with fails with the authentication error,
\* returns no key, leaves the account locked with no cached key and leaves
\* the key file as it was.
C6_WrongPassphraseFails ==
    [][(/\ last'.op = "get_key"
        /\ last'.was_locked
        /\ last'.alias \in DOMAIN key_files
        /\ last'.passphrase # None \/ last'.answer \in Passphrases
        /\ __decrypt_key_file(last'.alias, key_files,
              (IF last'.passphrase # None THEN last'.passphrase[1]
               ELSE last'.answer)).result # "ok")
         => /\ last'.result = "ValueError"
            /\ last'.value = None
            /\ cached_accounts'[last'.alias] = Locked
            /\ key_files' = key_files]_vars

C6_Witness ==
    /\ last.op = "get_key"
    /\ last.was_locked
    /\ last.had_key # None
    /\ last.result = "ValueError"
    /\ cached_accounts[last.alias] = Locked

\* C7: after import_account has created a key file for a fresh alias with
\* key k and new passphrase p, key access with p on the account that load
\* returns yields exactly k.
C7_ImportedKeyRoundTrip ==
    (/\ last.op = "import_account"
     /\ ~last.existed
     /\ last.result = "ok"
     /\ last.network_name # LOCAL_NETWORK_NAME)
      => LET loaded == load(Registry, last.alias)
         IN  /\ loaded.result = "ok"
             /\ loaded.kind = "keyfile"
             /\ _get_key(loaded.reg.cached_accounts[last.alias], last.alias,
                         key_files, Some(last.new_answer), Abort, FALSE).value
                  = last.key

\* C8: a key-file account whose locked flag is true holds no cached key, in
\* every reachable state, change_password's locking step included.
C8_LockedHoldsNoKey ==
    \A a \in DOMAIN cached_accounts :
        cached_accounts[a].locked => cached_accounts[a].cached_key = None

\* C9: no alias is in the ephemeral map and has a key file at the same time.
C9_NamespacesDisjoint ==
    (DOMAIN ephemeral_accounts) \cap (DOMAIN key_files) = {}

\* C10: when import_account or deploy_account creates a key file under an
\* alias that still has a cached account, the next load returns a locked
\* account and key access on it yields the key of the new key file, never a
\* key the earlier account had cached.
C10_CreationReplacesCacheEntry ==
    (/\ last.op \in {"import_account", "deploy_account"}
     /\ last.result = "ok"
     /\ _clean_network_name(last.network_name) # LOCAL_NETWORK_NAME
     /\ last.alias \in DOMAIN cached_accounts)
      => LET loaded == load(Registry, last.alias)
             account == loaded.reg.cached_accounts[last.alias]
             got == _get_key(account, last.alias, key_files,
                             Some(key_files[last.alias].crypto.mac[2]), Abort, FALSE)
         IN  /\ loaded.result = "ok"
             /\ account = Locked
             /\ got.value = Some(IntFromHex(key_files[last.alias].crypto.sealed))

\* A session of registry calls, account properties and restarts.
SessionKeys == {1}

SessionAddresses == {"0xA"}

NextSession ==
    \/ \E name \in NetworkNames : Connect(name)
    \/ \E alias \in Aliases : Load(alias)
    \/ \E alias \in Aliases, name \in NetworkNames, address \in SessionAddresses,
          key \in SessionKeys :
          \E answer \in IF _clean_network_name(name) = LOCAL_NETWORK_NAME
                         THEN {Abort} ELSE Answers :
              ImportAccount(alias, name, address, key, answer)
    \/ \E alias \in Aliases, key \in SessionKeys,
          receipt \in SessionAddresses \cup {"rejected", "no_address"} :
          \E answer \in IF receipt \in Addresses /\ network # LOCAL_NETWORK_NAME
                         THEN Answers ELSE {Abort} :
              DeployAccount(alias, None, key, receipt, answer)
    \/ \E alias \in Aliases, name \in OptionalNames, answer \in Answers :
          DeleteAccount(alias, name, answer)
    \/ \E alias \in Aliases : Address(alias)
    \/ Restart

SpecSession == Init /\ [][NextSession]_vars

\* The key file a complete call of a writing operation leaves for the alias,
\* and whether the call reaches write_text at all.
Writing(op, alias, network_name, contract_address, private_key, answer, new_answer) ==
    LET OfRegistry(r, reached) ==
            [wrote |-> r.result = "ok" /\ reached
                          /\ alias \in DOMAIN r.reg.key_files,
             fs |-> r.reg.key_files]
        OfAccount(r) ==
            [wrote |-> r.result = "ok" /\ alias \in DOMAIN r.fs, fs |-> r.fs]
    IN  CASE op = "import_account" ->
               OfRegistry(import_account(Registry, alias, network_name,
                                         contract_address, private_key, answer),
                          _clean_network_name(network_name) # LOCAL_NETWORK_NAME)
          [] op = "delete_account" ->
               OfRegistry(delete_account(Registry, network, alias,
                                         Some(network_name), answer),
                          alias \notin DOMAIN ephemeral_accounts)
          [] op = "add_deployment" /\ alias \in DOMAIN cached_accounts ->
               OfAccount(add_deployment(cached_accounts[alias], alias, key_files,
                                        network_name, contract_address, answer))
          [] op = "change_password" /\ alias \in DOMAIN cached_accounts ->
               OfAccount(change_password(cached_accounts[alias], alias,
                                         key_files, answer, new_answer))
          [] OTHER -> [wrote |-> FALSE, fs |-> key_files]

\* A writing operation whose write_text is cut short (the process is killed,
\* the disk is full): the file was emptied by open(path, "w") and holds the
\* members written so far; the process and its in-memory maps are gone.
InterruptedWrite(op, alias, network_name, contract_address, private_key, answer, new_answer, written) ==
    /\ local_balance_cache' = EmptyDict
    /\ UNCHANGED <<balances, transfers>>
    /\ written < Len(Members)
    /\ \E w \in {Writing(op, alias, network_name, contract_address, private_key,
                         answer, new_answer)} :
          /\ w.wrote
          /\ key_files' = write_text(key_files, alias, w.fs[alias], written)
          /\ last' = Call(op, alias, "Interrupted",
                          [value |-> Some(w.fs[alias]),
                           existed |-> alias \in DOMAIN key_files])
    /\ ephemeral_accounts' = EmptyDict
    /\ cached_accounts' = EmptyDict
    /\ UNCHANGED network

\* A key file that json.loads reads back as the whole account data.
Complete(file) == {Members[i] : i \in 1..Len(Members)} \subseteq DOMAIN file

Readable == \A path \in DOMAIN key_files : Complete(key_files[path])

IONetworkNames == {testnet, dev}

WritingOperations ==
    {"import_account", "delete_account", "add_deployment", "change_password"}

\* Calls that write key files, any of which may be cut short; nothing is
\* read from a key file that is not readable.
NextIO ==
    \/ Readable /\ \E alias \in Aliases : Load(alias)
    \/ Readable /\ \E alias \in Aliases, name \in IONetworkNames,
                       address \in SessionAddresses, key \in SessionKeys,
                       answer \in Answers :
                       ImportAccount(alias, name, address, key, answer)
    \/ Readable /\ \E alias \in Aliases, name \in IONetworkNames,
                       answer \in Answers :
                       DeleteAccount(alias, Some(name), answer)
    \/ Readable /\ \E alias \in Aliases, answer, new_answer \in Answers :
                       ChangePassword(alias, answer, new_answer)
    \/ Readable /\ \E alias \in Aliases, name \in IONetworkNames,
                       address \in SessionAddresses, answer \in Answers :
                       AddDeployment(alias, name, address, answer, MaxLedger)
    \/ Readable /\ \E op \in WritingOperations, alias \in Aliases,
                       name \in IONetworkNames, address \in SessionAddresses,
                       key \in SessionKeys, answer, new_answer \in Passphrases,
                       written \in 0..(Len(Members) - 1) :
                       InterruptedWrite(op, alias, name, address, key, answer,
                                        new_answer, written)

SpecIO == Init /\ [][NextIO]_vars

\* Signing and verifying with the accounts of the registry.
Messages == {5, 500}

Signatures == {sign_calldata(<<m>>, k) : m \in Messages, k \in Keys}

NextSign ==
    \/ \E alias \in Aliases : Load(alias)
    \/ \E alias \in Aliases, name \in NetworkNames, address \in SessionAddresses,
          key \in Keys :
          \E answer \in IF _clean_network_name(name) = LOCAL_NETWORK_NAME
                         THEN {Abort} ELSE Answers :
              ImportAccount(alias, name, address, key, answer)
    \/ \E alias \in Aliases, name \in OptionalNames, answer \in Answers :
          DeleteAccount(alias, name, answer)
    \/ \E alias \in Aliases, passphrase \in OptionalPassphrases :
          \E answer \in IF passphrase = None THEN Answers ELSE {Abort},
             confirm \in IF passphrase = None THEN BOOLEAN ELSE {FALSE} :
              GetKey(alias, passphrase, answer, confirm)
    \/ \E alias \in Aliases, msg \in Messages, passphrase \in OptionalPassphrases :
          \E answer \in IF passphrase = None THEN Answers ELSE {Abort},
             confirm \in IF passphrase = None THEN BOOLEAN ELSE {FALSE} :
              SignMessage(alias, msg, passphrase, answer, confirm)
    \/ \E alias \in Aliases, m \in Messages, signature \in Signatures :
          CheckSignature(alias, hash_calldata(<<m>>), signature)

SpecSign == Init /\ [][NextSign]_vars

\* The token manager: balances are read and tokens are sent on the local
\* network and on a live one.
NextTokens ==
    \/ \E name \in NetworkNames : Connect(name)
    \/ \E account \in AddressForms, token \in Tokens : GetBalance(account, token)
    \/ \E sender \in TokenHolders, receiver \in AddressForms, amount \in Amounts,
          token \in Tokens, sender_entry_lowered \in BOOLEAN :
          Transfer(sender, receiver, amount, token, sender_entry_lowered)

SpecTokens == Init /\ [][NextTokens]_vars

\* ------------------------------------------------------------ the ledger
\* The ledger stored in the key file of an alias.
Ledger(alias) == deployments(alias, key_files).list

\* C11: every ledger on disk holds at most one record per normalized
\* network name, and after a successful add_deployment(net, a) the record
\* for the normalized net is exactly the one pointing at a.
C11_OneRecordPerNetwork ==
    \A alias \in DOMAIN key_files :
        /\ \A i, j \in 1..Len(Ledger(alias)) :
               _clean_network_name(Ledger(alias)[i].network_name)
                   = _clean_network_name(Ledger(alias)[j].network_name)
               => i = j
        /\ (last.op = "add_deployment" /\ last.result = "ok"
                /\ last.alias = alias)
           => \A i \in 1..Len(Ledger(alias)) :
                  Ledger(alias)[i].network_name = last.network_name
                  <=> Ledger(alias)[i] =
                          [network_name |-> last.network_name,
                           contract_address |-> last.contract_address]

\* add_deployment replaced the record of a network whose name was
\* normalized, next to a record of another network.
C11_Witness ==
    /\ last.op = "add_deployment"
    /\ last.result = "ok"
    /\ last.had_record
    /\ last.network_arg # last.network_name
    /\ last.alias \in DOMAIN key_files
    /\ Len(Ledger(last.alias)) = 2
    /\ \E i \in 1..2 :
           Ledger(last.alias)[i] = [network_name |-> last.network_name,
                                    contract_address |-> last.contract_address]

\* The ledger of the account that load returns for the alias.
LoadedLedger(alias) ==
    IF "deployments" \in DOMAIN loaded_account_data(Registry, alias)
    THEN loaded_account_data(Registry, alias)["deployments"]
    ELSE <<>>

\* C12: after deploy_account succeeded for a fresh alias with a receipt
\* carrying contract address c, the alias loads, its ledger holds a record
\* for the (normalized) current network pointing at c, and contract_address
\* on the current network returns c, whatever the network is called.
C12_DeployedAccountResolves ==
    (last.op = "deploy_account" /\ last.result = "ok")
    => /\ load(Registry, last.alias).result = "ok"
       /\ \E i \in 1..Len(LoadedLedger(last.alias)) :
              LoadedLedger(last.alias)[i] =
                  [network_name |-> _clean_network_name(network),
                   contract_address |-> last.contract_address]
       /\ BaseStarknetAccount_contract_address(
              loaded_account_data(Registry, last.alias), network)
          = [result |-> "ok",
             value |-> Some(decode_address(last.contract_address))]

\* ------------------------------------------------------- failing deploys
\* C13: a deploy_account for an alias that already exists, or whose
\* transaction is rejected, or whose receipt carries no contract address,
\* fails; no account is created, the ephemeral accounts and the key files
\* are unchanged, and for an existing alias no transaction is sent.
C13_FailedDeployCreatesNothing ==
    [][(last'.op = "deploy_account" /\ last' # last
            /\ (last'.existed \/ last'.contract_address = ""))
       => /\ last'.result \in {"AccountsError", "ProviderError"}
          /\ UNCHANGED <<ephemeral_accounts, cached_accounts, key_files>>
          /\ last'.existed => ~last'.sent]_vars

\* deploy_account was refused for an existing alias before anything was sent.
C13_Witness ==
    /\ last.op = "deploy_account"
    /\ last.existed
    /\ last.result = "AccountsError"
    /\ ~last.sent
    /\ last.alias \in aliases

\* ------------------------------------------------ contract_address lookup
\* C14: for an account imported under a fresh alias with one deployment on
\* network N at address a, contract_address returns a when the current
\* network is N, and fails with the not-deployed error on every other
\* network the ledger has no record for.
C14_LookupFindsImportedDeployment ==
    (last.op = "import_account" /\ last.result = "ok" /\ ~last.existed)
    => \A current \in LedgerNetworkNames \cup NetworkNames :
           \/ /\ current # last.network_arg
              /\ \E i \in 1..Len(LoadedLedger(last.alias)) :
                     LoadedLedger(last.alias)[i].network_name = current
           \/ BaseStarknetAccount_contract_address(
                  loaded_account_data(Registry, last.alias), current)
              = IF current = last.network_arg
                THEN [result |-> "ok",
                      value |-> Some(decode_address(last.contract_address))]
                ELSE [result |-> "AccountsError", value |-> None]

\* ---------------------------------------------------- ephemeral accounts
\* C15: import_account and deploy_account on the local network leave every
\* key file as it was, and an alias that was ephemeral is not among the
\* aliases once the registry has been built again with empty maps.
C15_EphemeralIsolation ==
    [][/\ (last'.op \in {"import_account", "deploy_account"} /\ last' # last
              /\ _clean_network_name(last'.network_name) = LOCAL_NETWORK_NAME)
          => key_files' = key_files
       /\ last'.op = "restart"
          => \A alias \in DOMAIN ephemeral_accounts : alias \notin aliases']_vars

\* C20: address on an account got from the registry returns the address
\* derived from its public key and never raises.
C20_AddressNeverFails ==
    last.op = "address" => last.result = "ok" /\ last.value # None

\* --------------------------------------------------------------- delete
\* C16: delete_account on an alias with a key file, answered with a
\* passphrase that does not decrypt the key file, fails with the error of
\* the decryption and leaves the key file (its ledger included) and the
\* lock state of the account as they were, locked or unlocked.
C16_DeleteNeedsPassphrase ==
    [][(/\ last'.op = "delete_account" /\ last' # last
        /\ last'.alias \notin DOMAIN ephemeral_accounts
        /\ last'.alias \in DOMAIN key_files
        /\ last'.answer \in Passphrases
        /\ __decrypt_key_file(last'.alias, key_files, last'.answer).result # "ok")
       => /\ last'.result = "ValueError"
          /\ key_files' = key_files
          /\ last'.alias \in DOMAIN cached_accounts'
          /\ cached_accounts'[last'.alias] =
                 IF last'.alias \in DOMAIN cached_accounts
                 THEN cached_accounts[last'.alias]
                 ELSE StarknetKeyfileAccount]_vars

\* A delete with the wrong passphrase was refused on an unlocked account.
C16_Witness ==
    /\ last.op = "delete_account"
    /\ last.result = "ValueError"
    /\ last.answer \in Passphrases
    /\ last.alias \in DOMAIN key_files
    /\ last.alias \in DOMAIN cached_accounts
    /\ ~cached_accounts[last.alias].locked
    /\ cached_accounts[last.alias].cached_key # None
    /\ ~last.was_locked

\* ------------------------------------------------------ frame conditions
\* The records of a ledger whose network name is other than the given one.
RECURSIVE OtherNetworks(_, _)
OtherNetworks(ds, name) ==
    IF ds = <<>> THEN <<>>
    ELSE IF Head(ds).network_name # name
         THEN <<Head(ds)>> \o OtherNetworks(Tail(ds), name)
         ELSE OtherNetworks(Tail(ds), name)

\* C17: a successful delete_account(network) on an alias with a key file
\* removes exactly the records whose network name is network and keeps the
\* records of every other name; when records remain, the rewritten key
\* file decrypts with the same passphrase to the same key.
C17_DeleteRemovesOnlyThatNetwork ==
    [][(/\ last'.op = "delete_account" /\ last' # last
        /\ last'.result = "ok"
        /\ last'.alias \notin DOMAIN ephemeral_accounts
        /\ last'.alias \in DOMAIN key_files)
       => LET alias == last'.alias
              remaining == OtherNetworks(deployments(alias, key_files).list,
                                         last'.network_name)
          IN  /\ deployments(alias, key_files').list = remaining
              /\ remaining # <<>>
                 => /\ alias \in DOMAIN key_files'
                    /\ __decrypt_key_file(alias, key_files', last'.answer)
                       = __decrypt_key_file(alias, key_files, last'.answer)]_vars

\* C18: a successful add_deployment(network, address) keeps every record
\* whose network name differs from the normalized name of network, and the
\* key file still decrypts with the same passphrase to the same key.
C18_AddDeploymentKeepsOtherNetworks ==
    [][(/\ last'.op = "add_deployment" /\ last' # last
        /\ last'.result = "ok")
       => LET alias == last'.alias
          IN  /\ OtherNetworks(deployments(alias, key_files').list,
                               last'.network_name)
                 = OtherNetworks(deployments(alias, key_files).list,
                                 last'.network_name)
              /\ \A passphrase \in Passphrases :
                     __decrypt_key_file(alias, key_files', passphrase)
                     = __decrypt_key_file(alias, key_files, passphrase)]_vars

\* ------------------------------------------------------ interrupted writes
\* C19: when the write of a key file is cut short, the file on disk is the
\* complete old data or the complete new data.
C19_AtomicKeyFileWrites ==
    [][(last'.result = "Interrupted" /\ last' # last)
       => /\ last'.alias \in DOMAIN key_files'
          /\ \/ key_files'[last'.alias] = last'.value[1]
             \/ /\ last'.alias \in DOMAIN key_files
                /\ key_files'[last'.alias] = key_files[last'.alias]]_vars

\* ----------------------------------------------------------------- tokens
\* C24: get_balance(account, token) returns what the contract of the
\* requested token holds for the account, on the local network too and
\* whatever was asked before.
C24_BalanceOfRequestedToken ==
    last.op = "get_balance"
    => last.value = Some(get_balance_of_token(local_balance_cache, balances,
                                              last.network_name, last.account,
                                              last.token).value)

\* C25: after a successful transfer to another account on the local network
\* get_balance of the receiver and the token is its value before the
\* transfer plus the amount, for a receiver given as int, as str or as
\* account.
C25_TransferCreditsReceiver ==
    (last.op = "transfer" /\ last.result = "ok"
        /\ last.network_name = LOCAL_NETWORK_NAME
        /\ encode_address(last.account)[2] # last.sender)
    => get_balance(local_balance_cache, balances, last.network_name,
                   last.account, last.token).value
       = last.before[1] + last.amount

\* ----------------------------------------------------------------- signing
\* The registry after the step.
RegistryAfter == [ephemeral_accounts |-> ephemeral_accounts',
                  cached_accounts |-> cached_accounts',
                  key_files |-> key_files']

C22_OwnSignatureVerifies ==
    (last.op = "sign_message" /\ last.result = "ok")
    => check_signature(None, loaded_account_data(Registry, last.alias),
                       hash_calldata(<<last.msg>>), last.signature[1]).value
       = Some(TRUE)

\* C23: check_signature asks for no passphrase, decrypts no key file and
\* leaves the accounts, their lock state and cached keys, and the key files
\* as they were, also on a locked key-file account.
C23_CheckSignatureIsPure ==
    [][(last'.op = "check_signature" /\ last' # last)
       => /\ last'.prompts = {}
          /\ ~last'.decrypted
          /\ UNCHANGED <<ephemeral_accounts, cached_accounts, key_files>>]_vars

\* check_signature was answered on a locked key-file account, which is
\* still locked.
C23_Witness ==
    /\ last.op = "check_signature"
    /\ last.result = "ok"
    /\ last.was_locked
    /\ last.alias \notin DOMAIN ephemeral_accounts
    /\ last.alias \in DOMAIN key_files
    /\ cached_accounts[last.alias] = Locked

\* ------------------------------------------------------------ cached keys
\* C26: once delete has removed the key file of an alias, the account the
\* registry returns for the alias holds no cached private key.
C26_NoKeyOutlivesKeyFile ==
    (/\ last.op = "delete_account" /\ last.result = "ok"
     /\ "delete" \in last.prompts
     /\ last.alias \notin DOMAIN key_files)
    => \/ last.alias \notin DOMAIN cached_accounts
       \/ cached_accounts[last.alias].cached_key = None

\* C27: on an unlocked key-file account, key access and sign_message with
\* any supplied passphrase succeed with the cached key, without decrypting
\* the key file, without a prompt and without changing the lock state.
C27_UnlockedIgnoresPassphrase ==
    [][(/\ last'.op \in {"get_key", "sign_message"} /\ last' # last
        /\ last'.passphrase # None
        /\ last'.alias \in DOMAIN cached_accounts
        /\ last'.op = "sign_message" => last'.alias \notin DOMAIN ephemeral_accounts
        /\ ~cached_accounts[last'.alias].locked
        /\ cached_accounts[last'.alias].cached_key # None)
       => /\ last'.result = "ok"
          /\ last'.op = "get_key"
             => last'.value = cached_accounts[last'.alias].cached_key
          /\ last'.op = "sign_message"
             => last'.signature =
                    Some(sign_calldata(<<last'.msg>>,
                                       cached_accounts[last'.alias].cached_key[1]))
          /\ last'.prompts = {}
          /\ ~last'.decrypted
          /\ UNCHANGED <<cached_accounts, key_files>>]_vars

\* An unlocked account signed with a passphrase that does not decrypt its
\* key file.
C27_Witness ==
    /\ last.op = "sign_message"
    /\ last.result = "ok"
    /\ last.passphrase # None
    /\ last.alias \notin DOMAIN ephemeral_accounts
    /\ last.alias \in DOMAIN key_files
    /\ ~last.was_locked
    /\ last.had_key # None
    /\ ~last.decrypted
    /\ __decrypt_key_file(last.alias, key_files, last.passphrase[1]).result # "ok"
    /\ last.signature = Some(sign_calldata(<<last.msg>>, last.had_key[1]))

====
